---- MODULE Spec2Model ----
(***************************************************************************)
(* Model of pennylane/templates/state_preparations/mottonen.py: the        *)
(* MottonenStatePreparation template and its helpers.                      *)
(*                                                                         *)
(* Numbers.  Real quantities are carried exactly:                          *)
(*  - a complex amplitude is a Gaussian integer [re, im] over a common     *)
(*    integer scale, z = (re + i*im)/scale;                                *)
(*  - an absolute value is carried by its square (re^2 + im^2, in units of *)
(*    1/scale^2), since abs() of a grid point is in general irrational;    *)
(*  - an angle is a pair <<p, q>> standing for                             *)
(*        p * pi/(12*AngleScale) + q * arccos(1/3)/AngleScale.             *)
(*    pi and arccos(1/3) are linearly independent over the rationals, so   *)
(*    an angle is zero exactly when both components are zero.              *)
(* Floating-point rounding is not modelled.                                *)
(***************************************************************************)
EXTENDS Integers, Sequences, FiniteSets, TLC

VARIABLES
    state_vector,  \* argument: [scale, amp], amp a sequence of [re, im]
    wires,         \* argument: sequence of distinct wire labels
    pc,            \* position in MottonenStatePreparation
    k,             \* loop variable of the current cascade
    alpha,         \* alpha_y_k / alpha_z_k of the last cascade step
    theta,         \* theta computed by the last _uniform_rotation_dagger call
    control,       \* control wires of the last cascade step
    target,        \* target wire of the last cascade step
    last,          \* operations queued by the last cascade step
    ops,           \* operations queued so far, in order
    steps,         \* for each queued operation, the <<cascade, k>> that queued it
    error,         \* the ValueError raised, or "none"
    fn,            \* pure-function call: name of the function applied
    arg,           \* pure-function call: its argument
    ret            \* pure-function call: its return value

vars == <<state_vector, wires, pc, k, alpha, theta, control, target, last, ops,
          steps, error, fn, arg, ret>>

drv_vars == <<state_vector, wires, pc, k, alpha, theta, control, target, last,
              ops, steps, error>>

fn_vars == <<fn, arg, ret>>

-----------------------------------------------------------------------------
(* Bounds *)

\* largest number of wires
MaxN == 3

\* up to this many wires every grid state vector is an input; above it, the
\* grid state vectors with one half zero and those with two nonzero entries
FullN == 2

\* largest rank gray_code is called with directly
MaxRank == 4

\* most negative rank gray_code is called with directly is -MaxNegRank
MaxNegRank == 2

\* largest row / column _matrix_M_entry is called with directly
MaxIndex == 8

-----------------------------------------------------------------------------
(* Integer helpers *)

RECURSIVE Pow2(_)
Pow2(e) == IF e <= 0 THEN 1 ELSE 2 * Pow2(e - 1)

RECURSIVE BitAnd(_, _)
BitAnd(x, y) ==
    IF x = 0 \/ y = 0 THEN 0
    ELSE (x % 2) * (y % 2) + 2 * BitAnd(x \div 2, y \div 2)

RECURSIVE BitXor(_, _)
BitXor(x, y) ==
    IF x = 0 /\ y = 0 THEN 0
    ELSE ((x + y) % 2) + 2 * BitXor(x \div 2, y \div 2)

\* int(np.log2(x)) for x >= 1
RECURSIVE Log2(_)
Log2(x) == IF x <= 1 THEN 0 ELSE 1 + Log2(x \div 2)

\* s[1] + ... + s[len]
RECURSIVE SumIntsTo(_, _)
SumIntsTo(s, len) == IF len = 0 THEN 0 ELSE SumIntsTo(s, len - 1) + s[len]

SumInts(s) == SumIntsTo(s, Len(s))

Range(s) == {s[i] : i \in 1..Len(s)}

\* the sequence s with all its elements evaluated, as an array holds them
Array(s) == s \o <<>>

-----------------------------------------------------------------------------
(* Angles *)

AngleScale == Pow2(MaxN - 1)

ZeroAngle == <<0, 0>>

\* pi
PiAngle == <<12 * AngleScale, 0>>

\* arccos(1/3)
AcosThird == <<0, AngleScale>>

AngleAdd(x, y) == <<x[1] + y[1], x[2] + y[2]>>

AngleSub(x, y) == <<x[1] - y[1], x[2] - y[2]>>

AngleMul(c, x) == <<c * x[1], c * x[2]>>

AngleDiv(x, d) == <<x[1] \div d, x[2] \div d>>

\* s[1] + ... + s[len]
RECURSIVE SumAnglesTo(_, _)
SumAnglesTo(s, len) ==
    IF len = 0 THEN ZeroAngle ELSE AngleAdd(SumAnglesTo(s, len - 1), s[len])

SumAngles(s) == SumAnglesTo(s, Len(s))

-----------------------------------------------------------------------------
(* gray_code.  A binary string is a sequence of the characters "0", "1". *)

\* GrayLoops with the appended half not reflected: i runs 0 .. k-1
GrayLoops_unreflected(g) ==
    LET n == Len(g)
    IN  [i \in 1..n |-> <<"0">> \o g[i]] \o [i \in 1..n |-> <<"1">> \o g[i]]

\* the two loops of gray_code_recurse: "1" + g[i] is appended for i = k-1 .. 0,
\* then each of the first k entries is prefixed with "0"
GrayLoops(g) ==
    LET n == Len(g)
        appended == [i \in 1..n |-> <<"1">> \o g[n + 1 - i]]
        prefixed == [i \in 1..n |-> <<"0">> \o g[i]]
    IN  prefixed \o appended

RECURSIVE gray_code_recurse(_, _)
gray_code_recurse(g, rank) ==
    IF rank <= 0 THEN g ELSE gray_code_recurse(GrayLoops(g), rank - 1)

\* gray_code started from the rank-0 code [""] and recursing rank times
gray_code_from_empty(rank) == gray_code_recurse(<< <<>> >>, rank)

gray_code(rank) == gray_code_recurse(<< <<"0">>, <<"1">> >>, rank - 1)

\* int(s[1..len], 2)
RECURSIVE ParseBinaryTo(_, _)
ParseBinaryTo(s, len) ==
    IF len = 0 THEN 0
    ELSE 2 * ParseBinaryTo(s, len - 1) + (IF s[len] = "1" THEN 1 ELSE 0)

\* int(s, 2)
ParseBinary(s) == ParseBinaryTo(s, Len(s))

-----------------------------------------------------------------------------
(* _matrix_M_entry and _compute_theta *)

\* the while loop counting the set bits of b_and_g
RECURSIVE CountOnes(_)
CountOnes(b_and_g) ==
    IF b_and_g > 0 THEN (b_and_g % 2) + CountOnes(b_and_g \div 2) ELSE 0

_matrix_M_entry(row, col) ==
    LET b_and_g == BitAnd(row, BitXor(col \div 2, col))
        sum_of_ones == CountOnes(b_and_g)
    IN  IF sum_of_ones % 2 = 0 THEN 1 ELSE -1

\* M_trans filled with the arguments of _matrix_M_entry in the other order
M_trans_untransposed(i, j) == _matrix_M_entry(i, j)

\* M_trans[i, j] for zero-based i, j, as the double loop fills it
M_trans(i, j) == _matrix_M_entry(j, i)

\* _compute_theta without the division by 2 ** k
_compute_theta_undivided(alph) ==
    LET ln == Len(alph)
        row(i) == SumAngles([j \in 1..ln |-> AngleMul(M_trans(i - 1, j - 1), alph[j])])
    IN  Array([i \in 1..ln |-> row(i)])

_compute_theta(alph) ==
    LET ln == Len(alph)
        row(i) == SumAngles([j \in 1..ln |-> AngleMul(M_trans(i - 1, j - 1), alph[j])])
    IN  Array([i \in 1..ln |-> AngleDiv(row(i), ln)])

-----------------------------------------------------------------------------
(* Operations.  qml.RY / qml.RZ take one angle and one wire; qml.CNOT takes *)
(* wires=[control, target].                                                *)

NoWire == "-"

NoAngle == <<>>

Rotation(gate, angle, wire) ==
    [kind |-> gate, angle |-> angle, target |-> wire, control |-> NoWire]

CNOT(control_wire, target_wire) ==
    [kind |-> "CNOT", angle |-> NoAngle, target |-> target_wire, control |-> control_wire]

-----------------------------------------------------------------------------
(* _uniform_rotation_dagger: the operations it queues, in order *)

\* control_indices counting the bit position from the most significant bit
control_indices_msb(code, i) ==
    LET num_selections == Len(code)
    IN  (Len(code[1]) - 1)
        - Log2(BitXor(ParseBinary(code[i + 1]),
                      ParseBinary(code[((i + 1) % num_selections) + 1])))

\* control_indices[i], zero-based i, from the Gray code of the given rank
control_indices(code, i) ==
    LET num_selections == Len(code)
    IN  Log2(BitXor(ParseBinary(code[i + 1]),
                    ParseBinary(code[((i + 1) % num_selections) + 1])))

\* body of the loop over control_indices, iterations i .. num_selections - 1
RECURSIVE RotationLoop(_, _, _, _, _, _)
RotationLoop(gate, th, code, control_wires, target_wire, i) ==
    IF i >= Len(code) THEN <<>>
    ELSE (IF th[i + 1] # ZeroAngle
              THEN <<Rotation(gate, th[i + 1], target_wire)>> ELSE <<>>)
         \o <<CNOT(control_wires[control_indices(code, i) + 1], target_wire)>>
         \o RotationLoop(gate, th, code, control_wires, target_wire, i + 1)

\* _uniform_rotation_dagger queuing the rotation of the no-control case
\* without comparing theta[0] with 0.0
_uniform_rotation_dagger_no_elide(gate, alph, control_wires, target_wire) ==
    LET th == _compute_theta(alph)
        gray_code_rank == Len(control_wires)
    IN  IF gray_code_rank = 0
            THEN <<Rotation(gate, th[1], target_wire)>>
            ELSE RotationLoop(gate, th, gray_code(gray_code_rank),
                              control_wires, target_wire, 0)

\* _uniform_rotation_dagger without the CNOT after the last theta
_uniform_rotation_dagger_no_closing(gate, alph, control_wires, target_wire) ==
    LET th == _compute_theta(alph)
        gray_code_rank == Len(control_wires)
        looped == RotationLoop(gate, th, gray_code(gray_code_rank),
                               control_wires, target_wire, 0)
    IN  IF gray_code_rank = 0
            THEN (IF th[1] # ZeroAngle
                      THEN <<Rotation(gate, th[1], target_wire)>> ELSE <<>>)
            ELSE SubSeq(looped, 1, Len(looped) - 1)

_uniform_rotation_dagger(gate, alph, control_wires, target_wire) ==
    LET th == _compute_theta(alph)
        gray_code_rank == Len(control_wires)
    IN  IF gray_code_rank = 0
            THEN (IF th[1] # ZeroAngle
                      THEN <<Rotation(gate, th[1], target_wire)>> ELSE <<>>)
            ELSE RotationLoop(gate, th, gray_code(gray_code_rank),
                              control_wires, target_wire, 0)

-----------------------------------------------------------------------------
(* _get_alpha_z and _get_alpha_y.  Python indices are zero-based; np.take  *)
(* of index x reads element x + 1 of the sequence.                         *)

Take(v, indices) == Array([i \in 1..Len(indices) |-> v[indices[i] + 1]])

indices1(n, kk) ==
    [j \in 1..Pow2(n - kk) |->
        [l \in 1..Pow2(kk - 1) |-> (2 * j - 1) * Pow2(kk - 1) + l - 1]]

indices2(n, kk) ==
    [j \in 1..Pow2(n - kk) |->
        [l \in 1..Pow2(kk - 1) |-> (2 * j - 2) * Pow2(kk - 1) + l - 1]]

\* _get_alpha_z with j running over range(1, 2 ** (n - k)) only
_get_alpha_z_short(omega, n, kk) ==
    LET term1(j) == Take(omega, indices1(n, kk)[j])
        term2(j) == Take(omega, indices2(n, kk)[j])
        diff(j) == Array([l \in 1..Pow2(kk - 1) |->
                       AngleDiv(AngleSub(term1(j)[l], term2(j)[l]), Pow2(kk - 1))])
    IN  Array([j \in 1..(Pow2(n - kk) - 1) |-> SumAngles(diff(j))])

_get_alpha_z(omega, n, kk) ==
    LET term1(j) == Take(omega, indices1(n, kk)[j])
        term2(j) == Take(omega, indices2(n, kk)[j])
        diff(j) == Array([l \in 1..Pow2(kk - 1) |->
                       AngleDiv(AngleSub(term1(j)[l], term2(j)[l]), Pow2(kk - 1))])
    IN  Array([j \in 1..Pow2(n - kk) |-> SumAngles(diff(j))])

\* indices_numerator reading the lower half of each group
indices_numerator_lower(n, kk) ==
    [j \in 1..Pow2(n - kk) |->
        [l \in 1..Pow2(kk - 1) |-> (2 * ((j - 1) + 1) - 2) * Pow2(kk - 1) + (l - 1)]]

\* row j + 1 holds the indices of group j, j = 0 .. 2^(n-k) - 1
indices_numerator(n, kk) ==
    [j \in 1..Pow2(n - kk) |->
        [l \in 1..Pow2(kk - 1) |-> (2 * ((j - 1) + 1) - 1) * Pow2(kk - 1) + (l - 1)]]

indices_denominator(n, kk) ==
    [j \in 1..Pow2(n - kk) |->
        [l \in 1..Pow2(kk) |-> (j - 1) * Pow2(kk) + (l - 1)]]

\* np.abs(x) ** 2 of an absolute value carried by its square
AbsSquared(x) == x.sq

\* np.sum(np.abs(np.take(a, indices)) ** 2, axis=1)
GroupSums(a, indices) ==
    Array([j \in 1..Len(indices) |->
        LET taken == Take(a, indices[j])
        IN  SumInts(Array([l \in 1..Len(taken) |-> AbsSquared(taken[l])]))])

\* np.divide(numerator, denominator, out=zeros, where=denominator != 0),
\* one entry; the quotient is kept as the fraction <<numerator, denominator>>
MaskedDivide(numerator, denominator) ==
    IF denominator # 0 THEN <<numerator, denominator>> ELSE <<0, 1>>

\* 2 * arcsin(sqrt(x)) for the quotients x = f[1]/f[2] with an exact value:
\* 0, 1, 1/2, 1/4, 3/4, 1/3, 2/3
TwoArcsinSqrt(f) ==
    IF f[1] = 0 THEN ZeroAngle
    ELSE IF f[1] = f[2] THEN PiAngle
    ELSE IF 2 * f[1] = f[2] THEN AngleDiv(PiAngle, 2)
    ELSE IF 4 * f[1] = f[2] THEN AngleDiv(PiAngle, 3)
    ELSE IF 4 * f[1] = 3 * f[2] THEN AngleMul(2, AngleDiv(PiAngle, 3))
    ELSE IF 3 * f[1] = f[2] THEN AcosThird
    ELSE CASE 3 * f[1] = 2 * f[2] -> AngleSub(PiAngle, AcosThird)

\* _get_alpha_y with one entry per half group: each block of 2^(k-1) entries
\* over the group of 2^k entries that holds it
_get_alpha_y_halfgroups(a, n, kk) ==
    LET numerator == GroupSums(a, indices_denominator(n, kk - 1))
        denominator == GroupSums(a, indices_denominator(n, kk))
        division == Array([j \in 1..Len(numerator) |->
                        MaskedDivide(numerator[j], denominator[((j - 1) \div 2) + 1])])
    IN  Array([j \in 1..Len(division) |-> TwoArcsinSqrt(division[j])])

_get_alpha_y(a, n, kk) ==
    LET numerator == GroupSums(a, indices_numerator(n, kk))
        denominator == GroupSums(a, indices_denominator(n, kk))
        division == Array([j \in 1..Len(numerator) |->
                        MaskedDivide(numerator[j], denominator[j])])
    IN  Array([j \in 1..Len(division) |-> TwoArcsinSqrt(division[j])])

-----------------------------------------------------------------------------
(* Input checks *)

\* get_shape of a one-dimensional array: its length
get_shape(v) == Len(v.amp)

\* check_shape(state_vector, expected_shape, msg): TRUE when it raises
check_shape(v, expected_shape) == get_shape(v) # expected_shape

\* atol passed to np.isclose, in millionths
AtolMillionths == 1000

\* rtol np.isclose uses when none is passed (1e-5), in millionths
RtolMillionths == 10

\* np.sum(np.abs(state_vector) ** 2), in units of 1/scale^2
NormSquared(v) ==
    SumInts([i \in 1..Len(v.amp) |-> v.amp[i].re * v.amp[i].re + v.amp[i].im * v.amp[i].im])

\* floor(x * m / 10^6), computed without leaving 32 bits
MillionthsOf(x, m) ==
    (x \div 1000000) * m + ((x % 1000000) * m) \div 1000000

\* isclose with the absolute tolerance alone
isclose_atol_only(v) ==
    LET one == v.scale * v.scale
        norm == NormSquared(v)
        dev == IF norm >= one THEN norm - one ELSE one - norm
    IN  dev <= MillionthsOf(one, AtolMillionths)

\* np.isclose(norm, 1.0, atol=1e-3): abs(norm - 1.0) <= atol + rtol * abs(1.0),
\* with norm = NormSquared(v)/scale^2
isclose(v) ==
    LET one == v.scale * v.scale
        norm == NormSquared(v)
        dev == IF norm >= one THEN norm - one ELSE one - norm
    IN  dev <= MillionthsOf(one, AtolMillionths + RtolMillionths)

-----------------------------------------------------------------------------
(* np.absolute and np.angle *)

\* np.absolute(z), carried by its square
Absolute(z) == [sq |-> z.re * z.re + z.im * z.im]

\* np.angle(z) = atan2(im, re) in (-pi, pi], for z on an axis or a diagonal
Angle(z) ==
    LET quarter == AngleDiv(PiAngle, 4)
    IN  CASE z.im = 0 /\ z.re >= 0 -> ZeroAngle
          [] z.im = 0 /\ z.re < 0 -> PiAngle
          [] z.re = 0 /\ z.im > 0 -> AngleMul(2, quarter)
          [] z.re = 0 /\ z.im < 0 -> AngleMul(-2, quarter)
          [] z.re = z.im /\ z.re > 0 -> quarter
          [] z.re = z.im /\ z.re < 0 -> AngleMul(-3, quarter)
          [] z.re = -z.im /\ z.re > 0 -> AngleMul(-1, quarter)
          [] z.re = -z.im /\ z.re < 0 -> AngleMul(3, quarter)

-----------------------------------------------------------------------------
(* Inputs *)

Z(re, im) == [re |-> re, im |-> im]

\* grid amplitudes over scale 2, by squared magnitude in quarters
GridAmps(w) ==
    CASE w = 0 -> {Z(0, 0)}
      [] w = 1 -> {Z(1, 0), Z(0, 1)}
      [] w = 2 -> {Z(1, 1), Z(-1, -1)}
      [] w = 4 -> {Z(2, 0), Z(-2, 0), Z(0, -2)}
      [] OTHER -> {}

\* sequences of grid amplitudes of length 2^e whose squared magnitudes sum to w
RECURSIVE GridVectors(_, _)
GridVectors(e, w) ==
    IF e = 0 THEN {<<z>> : z \in GridAmps(w)}
    ELSE UNION {{x \o y : x \in GridVectors(e - 1, w1), y \in GridVectors(e - 1, w - w1)} :
                  w1 \in IF e > FullN THEN {0, w} ELSE 0..w}

\* sequences of length len with two nonzero entries of squared magnitude 1/2
TwoPointVectors(len) ==
    {[m \in 1..len |-> IF m = i THEN Z(1, 1) ELSE IF m = j THEN z ELSE Z(0, 0)] :
        i \in 1..len, j \in 1..len, z \in {Z(1, 1), Z(-1, 1)}} \ {<<Z(1, 1)>>}

\* exactly normalized state vectors on n wires
UnitVectors(n) ==
    {[scale |-> 2, amp |-> x] :
        x \in GridVectors(n, 4) \cup (IF n > FullN THEN TwoPointVectors(Pow2(n)) ELSE {})}

\* (c, 0, ..., 0) of the given length
Single(c, len) == [i \in 1..len |-> IF i = 1 THEN c ELSE Z(0, 0)]

\* state vectors (re/30000, 0, ..., 0) with squared norm 0, far from 1, and on
\* either side of 1 - 1e-3, 1 + 1e-3 and 1 + 1e-3 + 1e-5
NearUnitVectors(n) ==
    {[scale |-> 30000, amp |-> Single(Z(re, 0), Pow2(n))] :
        re \in {0, 29984, 29985, 30000, 30014, 30015, 30016, 42000}}

\* state vectors whose length is not 2^n: normalized ones and others
WrongShapeVectors(n) ==
    UNION {{[scale |-> 2, amp |-> Single(Z(2, 0), len)],
            [scale |-> 2, amp |-> [i \in 1..len |-> Z(2, 0)]]} :
              len \in (1..(Pow2(MaxN) + 1)) \ {Pow2(n)}}

StateVectors(n) == UnitVectors(n) \cup NearUnitVectors(n) \cup WrongShapeVectors(n)

\* distinct wire labels (Wires(wires) accepts no others): range(n), and up to
\* FullN wires its reverse as well
WireLists(n) ==
    {[i \in 1..n |-> i - 1]} \cup (IF n > FullN THEN {} ELSE {[i \in 1..n |-> n - i]})

-----------------------------------------------------------------------------
(* MottonenStatePreparation *)

n_wires == Len(wires)

\* wires_reverse without the reversal
wires_unreversed == wires

\* wires[::-1]
wires_reverse == Array([i \in 1..n_wires |-> wires[n_wires + 1 - i]])

a == Array([i \in 1..Len(state_vector.amp) |-> Absolute(state_vector.amp[i])])

omega == Array([i \in 1..Len(state_vector.amp) |-> Angle(state_vector.amp[i])])

\* wires_reverse[kk:]
ControlOf(kk) == SubSeq(wires_reverse, kk + 1, n_wires)

\* wires_reverse[kk - 1]
TargetOf(kk) == wires_reverse[kk]

NoCall == <<>>

DrvInit ==
    /\ \E n \in 0..MaxN :
          /\ wires \in WireLists(n)
          /\ state_vector \in StateVectors(n)
    /\ pc = "check_shape"
    /\ k = 0
    /\ alpha = <<>>
    /\ theta = <<>>
    /\ control = <<>>
    /\ target = NoWire
    /\ last = <<>>
    /\ ops = <<>>
    /\ steps = <<>>
    /\ error = "none"

\* CheckShape with the normalization check made before the shape check
CheckShape_after_norm ==
    /\ pc = "check_shape"
    /\ IF ~isclose(state_vector)
          THEN pc' = "raised" /\ error' = "norm"
          ELSE IF check_shape(state_vector, Pow2(n_wires))
                  THEN pc' = "raised" /\ error' = "shape"
                  ELSE pc' = "y_cascade" /\ error' = error
    /\ k' = n_wires
    /\ UNCHANGED <<state_vector, wires, alpha, theta, control, target, last,
                   ops, steps, fn_vars>>

\* lines 248-257
CheckShape ==
    /\ pc = "check_shape"
    /\ IF check_shape(state_vector, Pow2(n_wires))
          THEN pc' = "raised" /\ error' = "shape"
          ELSE pc' = "check_norm" /\ error' = error
    /\ UNCHANGED <<state_vector, wires, k, alpha, theta, control, target, last,
                   ops, steps, fn_vars>>

\* lines 265-276, up to the entry of the first loop
CheckNorm ==
    /\ pc = "check_norm"
    /\ IF ~isclose(state_vector)
          THEN pc' = "raised" /\ error' = "norm" /\ k' = k
          ELSE pc' = "y_cascade" /\ error' = error /\ k' = n_wires
    /\ UNCHANGED <<state_vector, wires, alpha, theta, control, target, last,
                   ops, steps, fn_vars>>

\* Queue putting the new operations in front of the queue
Queue_prepend(cascade, kk, new) ==
    /\ last' = new
    /\ ops' = new \o ops
    /\ steps' = [i \in 1..Len(new) |-> <<cascade, kk>>] \o steps

\* the operations of one cascade step are appended to the queue
Queue(cascade, kk, new) ==
    /\ last' = new
    /\ ops' = ops \o new
    /\ steps' = steps \o [i \in 1..Len(new) |-> <<cascade, kk>>]

\* one iteration of the loop of lines 279-283
YStep ==
    /\ pc = "y_cascade"
    /\ k >= 1
    /\ LET alpha_y_k == _get_alpha_y(a, n_wires, k)
       IN  /\ alpha' = alpha_y_k
           /\ control' = ControlOf(k)
           /\ target' = TargetOf(k)
           /\ theta' = _compute_theta(alpha_y_k)
           /\ Queue("Y", k, _uniform_rotation_dagger("RY", alpha_y_k, ControlOf(k), TargetOf(k)))
    /\ k' = k - 1
    /\ UNCHANGED <<state_vector, wires, pc, error, fn_vars>>

\* the loop of lines 279-283 ends and the loop of lines 286-291 is entered
YDone ==
    /\ pc = "y_cascade"
    /\ k = 0
    /\ pc' = "z_cascade"
    /\ k' = n_wires
    /\ UNCHANGED <<state_vector, wires, alpha, theta, control, target, last,
                   ops, steps, error, fn_vars>>

\* one iteration of the loop of lines 286-291
ZStep ==
    /\ pc = "z_cascade"
    /\ k >= 1
    /\ LET alpha_z_k == _get_alpha_z(omega, n_wires, k)
       IN  /\ alpha' = alpha_z_k
           /\ control' = ControlOf(k)
           /\ target' = TargetOf(k)
           /\ IF Len(alpha_z_k) > 0
                 THEN /\ theta' = _compute_theta(alpha_z_k)
                      /\ Queue("Z", k, _uniform_rotation_dagger("RZ", alpha_z_k, ControlOf(k), TargetOf(k)))
                 ELSE /\ theta' = theta
                      /\ Queue("Z", k, <<>>)
    /\ k' = k - 1
    /\ UNCHANGED <<state_vector, wires, pc, error, fn_vars>>

\* the loop of lines 286-291 ends and the template returns
ZDone ==
    /\ pc = "z_cascade"
    /\ k = 0
    /\ pc' = "done"
    /\ UNCHANGED <<state_vector, wires, k, alpha, theta, control, target, last,
                   ops, steps, error, fn_vars>>

Init ==
    /\ DrvInit
    /\ fn = "none"
    /\ arg = NoCall
    /\ ret = NoCall

Next ==
    \/ CheckShape
    \/ CheckNorm
    \/ YStep
    \/ YDone
    \/ ZStep
    \/ ZDone

Spec == Init /\ [][Next]_vars

-----------------------------------------------------------------------------
(* The helpers applied on their own to arguments from bounded sets *)

Returned(value) == [outcome |-> "returned", value |-> value]

\* alpha arguments of _compute_theta: lengths 1, 2, .., 2^(MaxN-1)
AlphaInputs ==
    UNION {[1..Pow2(e) -> {ZeroAngle, PiAngle, AngleMul(-1, AcosThird)}] : e \in 0..(MaxN - 1)}

FnIdle ==
    /\ wires = <<>>
    /\ state_vector = [scale |-> 2, amp |-> <<Z(2, 0)>>]
    /\ pc = "idle"
    /\ k = 0
    /\ alpha = <<>>
    /\ theta = <<>>
    /\ control = <<>>
    /\ target = NoWire
    /\ last = <<>>
    /\ ops = <<>>
    /\ steps = <<>>
    /\ error = "none"

FnInit ==
    /\ FnIdle
    /\ fn = "none"
    /\ arg = NoCall
    /\ ret = NoCall

CallGrayCode ==
    /\ fn = "none"
    /\ \E rank \in (-MaxNegRank)..MaxRank :
          /\ fn' = "gray_code"
          /\ arg' = rank
          /\ ret' = Returned(gray_code(rank))
    /\ UNCHANGED drv_vars

CallMatrixEntry ==
    /\ fn = "none"
    /\ \E row \in 0..MaxIndex, col \in 0..MaxIndex :
          /\ fn' = "_matrix_M_entry"
          /\ arg' = <<row, col>>
          /\ ret' = Returned(_matrix_M_entry(row, col))
    /\ UNCHANGED drv_vars

CallComputeTheta ==
    /\ fn = "none"
    /\ \E alph \in AlphaInputs :
          /\ fn' = "_compute_theta"
          /\ arg' = alph
          /\ ret' = Returned(_compute_theta(alph))
    /\ UNCHANGED drv_vars

FnNext ==
    \/ CallGrayCode
    \/ CallMatrixEntry
    \/ CallComputeTheta

FnSpec == FnInit /\ [][FnNext]_vars

-----------------------------------------------------------------------------
(* Claims about gray_code *)

\* number of positions in which two strings of equal length differ
DiffCount(x, y) == Cardinality({i \in 1..Len(x) : x[i] # y[i]})

\* C2: gray_code(r) for r >= 0 returns 2^r strings (2 for r = 0), the first
\* all zeros, and cyclically adjacent entries differ in exactly one position.
C2_GrayCodeShape ==
    (fn = "gray_code" /\ arg >= 0) =>
        LET g == ret.value
            len == IF arg >= 1 THEN Pow2(arg) ELSE 2
        IN  /\ ret.outcome = "returned"
            /\ Len(g) = len
            /\ \A i \in 1..Len(g[1]) : g[1][i] = "0"
            /\ \A i \in 1..len :
                  /\ Len(g[i]) = Len(g[(i % len) + 1])
                  /\ DiffCount(g[i], g[(i % len) + 1]) = 1

C2_Witness == fn = "gray_code" /\ arg = 3 /\ Len(ret.value) = 8

\* C9 as claimed: gray_code called with a negative rank ends in an error and
\* returns no code list.
C9_NegativeRankRejected ==
    (fn = "gray_code" /\ arg < 0) => ret.outcome = "raised"

\* C9 amended: gray_code called with a negative rank raises nothing and returns
\* the two-entry code "0", "1", as for ranks 0 and 1.
C9_NegativeRankReturnsBase ==
    (fn = "gray_code" /\ arg < 0) =>
        /\ ret.outcome = "returned"
        /\ ret.value = << <<"0">>, <<"1">> >>

C9_Witness == fn = "gray_code" /\ arg < 0 /\ ret.outcome = "returned"

-----------------------------------------------------------------------------
(* Claims about _compute_theta *)

\* bit b of x
Bit(x, b) == (x \div Pow2(b)) % 2

\* (-1)^popcount(row AND (col XOR (col >> 1))), bit by bit
SignEntry(row, col) ==
    LET common == {b \in 0..(MaxN + 1) :
                      Bit(row, b) = 1 /\ Bit(col, b) # Bit(col, b + 1)}
    IN  IF Cardinality(common) % 2 = 0 THEN 1 ELSE -1

\* theta = (M @ alpha) / L for the L x L matrix M, given zero-based
ThetaIsProduct(M(_, _), alph, th) ==
    LET L == Len(alph)
    IN  /\ Len(th) = L
        /\ \A i \in 0..(L - 1) :
              AngleMul(L, th[i + 1]) =
                  SumAngles(Array([j \in 1..L |-> AngleMul(M(i, j - 1), alph[j])]))

-----------------------------------------------------------------------------
(* Claims about the input checks *)

\* the state vector has 2^N entries for the N declared wires
ShapeMatches == Len(state_vector.amp) = Pow2(Len(wires))

\* |squared norm - 1| exceeds m millionths
DeviatesMoreThan(m) ==
    LET one == state_vector.scale * state_vector.scale
        norm == NormSquared(state_vector)
        dev == IF norm >= one THEN norm - one ELSE one - norm
    IN  dev > MillionthsOf(one, m)

\* C3: a state vector whose length is not 2^N ends the template with the shape
\* error, whatever its norm, and with no operation queued.
C3_ShapeErrorFirst ==
    (pc \notin {"idle", "check_shape"} /\ ~ShapeMatches) =>
        /\ pc = "raised"
        /\ error = "shape"
        /\ ops = <<>>

C3_Witness ==
    /\ pc = "raised"
    /\ error = "shape"
    /\ DeviatesMoreThan(1010)
    /\ Len(wires) >= 1

\* C4 as claimed (stated for N >= 1): a state vector of the right length ends in
\* the normalization error, with no operation queued, exactly when its squared
\* norm deviates from 1 by more than 1e-3.
C4_ToleranceIsAtol ==
    (pc \notin {"idle", "check_shape", "check_norm"} /\ ShapeMatches /\ Len(wires) >= 1) =>
        (DeviatesMoreThan(1000) <=> (pc = "raised" /\ error = "norm" /\ ops = <<>>))

\* C4 amended: a state vector of the right length ends in the normalization
\* error, with no operation queued, exactly when its squared norm deviates from
\* 1 by more than 1e-3 + 1e-5 (the atol passed to np.isclose plus its default
\* rtol times 1.0).
C4_ToleranceIsAtolPlusRtol ==
    (pc \notin {"idle", "check_shape", "check_norm"} /\ ShapeMatches) =>
        (DeviatesMoreThan(1010) <=> (pc = "raised" /\ error = "norm" /\ ops = <<>>))

C4_Witness ==
    /\ pc = "done"
    /\ Len(wires) >= 1
    /\ DeviatesMoreThan(1000)
    /\ Len(ops) > 0

-----------------------------------------------------------------------------
(* Claims about the cascades *)

\* a step has run in the current cascade; it was step k + 1
StepTaken == pc \in {"y_cascade", "z_cascade"} /\ k < Len(wires)

\* position of a step in the order Y:N, .., Y:1, Z:N, .., Z:1
StepRank(st) == (IF st[1] = "Y" THEN 0 ELSE Len(wires)) + (Len(wires) - st[2])

\* C5: in the queue every operation of the Y-cascade precedes every operation
\* of the Z-cascade, RY is queued by the Y-cascade only and RZ by the
\* Z-cascade only, and within each cascade the steps come in the order
\* k = N, N-1, .., 1.
C5_CascadeOrder ==
    /\ Len(steps) = Len(ops)
    /\ \A i \in 1..Len(ops) :
          /\ ops[i].kind = "RY" => steps[i][1] = "Y"
          /\ ops[i].kind = "RZ" => steps[i][1] = "Z"
          /\ steps[i][2] \in 1..Len(wires)
          /\ i < Len(ops) => StepRank(steps[i]) <= StepRank(steps[i + 1])
    /\ pc = "y_cascade" => \A i \in 1..Len(ops) : steps[i][1] = "Y" /\ steps[i][2] > k
    /\ pc = "z_cascade" =>
          \A i \in 1..Len(ops) : steps[i][1] = "Z" => steps[i][2] > k

C5_Witness ==
    /\ pc = "done"
    /\ {<<"Y", 2>>, <<"Y", 1>>, <<"Z", 2>>, <<"Z", 1>>} \subseteq Range(steps)
    /\ \E i \in 1..Len(ops) : \E j \in (i + 1)..Len(ops) :
          ops[i].kind = "RY" /\ ops[j].kind = "RZ"

\* the position, counted from the last character, in which strings x and y differ
DifferingBit(x, y) == CHOOSE b \in 0..(Len(x) - 1) : x[Len(x) - b] # y[Len(y) - b]

\* C6: with r >= 1 control wires the expander queues, for i = 0 .. 2^r - 1 in
\* order, a rotation of the cascade's kind with angle theta[i] on the target
\* iff theta[i] # 0, then always a CNOT on the target controlled by
\* controlWires[p], p the position (from the least significant bit) in which
\* Gray code entries i and (i+1) mod 2^r differ; the last operation is a CNOT.
C6_ExpanderSequence ==
    (StepTaken /\ Len(control) >= 1) =>
        LET r == Len(control)
            num == Pow2(r)
            code == gray_code(r)
            gate == IF pc = "y_cascade" THEN "RY" ELSE "RZ"
            nz(i) == theta[i + 1] # ZeroAngle
            off(i) == i + Cardinality({j \in 0..(i - 1) : nz(j)})
            p(i) == DifferingBit(code[i + 1], code[((i + 1) % num) + 1])
        IN  /\ Len(theta) = num
            /\ Len(last) = off(num)
            /\ \A i \in 0..(num - 1) :
                  /\ nz(i) =>
                        last[off(i) + 1] =
                            [kind |-> gate, angle |-> theta[i + 1],
                             target |-> target, control |-> NoWire]
                  /\ last[off(i + 1)] =
                        [kind |-> "CNOT", angle |-> NoAngle,
                         target |-> target, control |-> control[p(i) + 1]]
            /\ last[Len(last)].kind = "CNOT"

C6_Witness ==
    /\ StepTaken
    /\ Len(control) = 2
    /\ theta[2] = ZeroAngle
    /\ theta[3] # ZeroAngle
    /\ Len(last) > 4

\* C8: step k has target w[N-k] and controls w[N-k-1], .., w[0], for the
\* caller's zero-based wires w; every operation it queues has that target, a
\* CNOT's control is one of those controls, and the target is not among them.
C8_WireRoles ==
    LET N == Len(wires)
        \* w[i] for zero-based i
        w(i) == wires[i + 1]
    IN  /\ StepTaken =>
              LET kk == k + 1
              IN  /\ target = w(N - kk)
                  /\ Len(control) = N - kk
                  /\ \A m \in 1..(N - kk) : control[m] = w(N - kk - m)
                  /\ target \notin Range(control)
                  /\ \A i \in 1..Len(last) :
                        /\ last[i].target = target
                        /\ last[i].kind = "CNOT" => last[i].control \in Range(control)
        /\ \A i \in 1..Len(ops) :
              LET kk == steps[i][2]
              IN  /\ ops[i].target = w(N - kk)
                  /\ ops[i].kind = "CNOT" =>
                        ops[i].control \in {w(N - kk - m) : m \in 1..(N - kk)}
                  /\ ops[i].kind # "CNOT" => ops[i].control = NoWire

C8_Witness ==
    /\ StepTaken
    /\ k = 0
    /\ Len(wires) = 3
    /\ wires[1] = 0
    /\ target = 2
    /\ control = <<1, 0>>
    /\ \E i \in 1..Len(last) : last[i].kind = "CNOT" /\ last[i].control = 0
    /\ \E i \in 1..Len(last) : last[i].kind = "CNOT" /\ last[i].control = 1

\* squared magnitude of entry i (zero-based) of the state vector
SquaredAmp(i) ==
    state_vector.amp[i + 1].re * state_vector.amp[i + 1].re
        + state_vector.amp[i + 1].im * state_vector.amp[i + 1].im

\* sum of the squared magnitudes of entries from .. from + count - 1
BlockSum(from, count) ==
    SumInts(Array([l \in 1..count |-> SquaredAmp(from + l - 1)]))

-----------------------------------------------------------------------------
(* Claims about concrete inputs *)

\* the template has returned for the state vector amp/scale on wires 0 .. N-1
ReturnedFor(scale, amp) ==
    /\ pc = "done"
    /\ state_vector = [scale |-> scale, amp |-> amp]
    /\ wires = [i \in 1..Len(wires) |-> i - 1]

\* pi / 2
HalfPi == AngleDiv(PiAngle, 2)

\* C11: for N = 1, input [1, 0] queues no operation, and input [0, 1] queues
\* exactly one operation, a Y-rotation of angle pi on the single wire.
C11_SingleWireBoundary ==
    /\ ReturnedFor(2, <<Z(2, 0), Z(0, 0)>>) => ops = <<>>
    /\ ReturnedFor(2, <<Z(0, 0), Z(2, 0)>>) =>
          ops = << [kind |-> "RY", angle |-> PiAngle, target |-> 0, control |-> NoWire] >>

C11_Witness ==
    /\ ReturnedFor(2, <<Z(0, 0), Z(2, 0)>>)
    /\ Len(ops) = 1
    /\ ops[1].kind = "RY"

\* the operations queued by step kk of a cascade, in order
OpsOfStep(cascade, kk) ==
    LET at == {i \in 1..Len(ops) : steps[i] = <<cascade, kk>>}
    IN  [m \in 1..Cardinality(at) |->
            ops[CHOOSE i \in at : Cardinality({j \in at : j <= i}) = m]]

\* the uniform two-wire state [1/2, 1/2, 1/2, 1/2]
UniformTwoWires == <<Z(1, 0), Z(1, 0), Z(1, 0), Z(1, 0)>>

\* C12 as claimed: for N = 2 and input [1/2, 1/2, 1/2, 1/2] no Z-rotation is
\* queued, the k = 2 step queues a Y-rotation of angle pi/2, and the k = 1 step
\* of the Y-cascade queues no rotation while it still queues its CNOTs.
C12_NoRotationAtStepOne ==
    ReturnedFor(2, UniformTwoWires) =>
        /\ \A i \in 1..Len(ops) : ops[i].kind # "RZ"
        /\ OpsOfStep("Y", 2) =
              << [kind |-> "RY", angle |-> HalfPi, target |-> 0, control |-> NoWire] >>
        /\ \A i \in 1..Len(OpsOfStep("Y", 1)) : OpsOfStep("Y", 1)[i].kind = "CNOT"
        /\ Len(OpsOfStep("Y", 1)) = 2

\* C12 amended: for N = 2 and input [1/2, 1/2, 1/2, 1/2] no Z-rotation is
\* queued, the k = 2 step queues a Y-rotation of angle pi/2, and at the k = 1
\* step the angles are theta = [pi/2, 0]: the step queues one Y-rotation of
\* angle pi/2, a CNOT, no second rotation, and a second CNOT.
C12_OneRotationAtStepOne ==
    ReturnedFor(2, UniformTwoWires) =>
        /\ \A i \in 1..Len(ops) : ops[i].kind # "RZ"
        /\ OpsOfStep("Y", 2) =
              << [kind |-> "RY", angle |-> HalfPi, target |-> 0, control |-> NoWire] >>
        /\ OpsOfStep("Y", 1) =
              << [kind |-> "RY", angle |-> HalfPi, target |-> 1, control |-> NoWire],
                 [kind |-> "CNOT", angle |-> NoAngle, target |-> 1, control |-> 0],
                 [kind |-> "CNOT", angle |-> NoAngle, target |-> 1, control |-> 0] >>

C12_Witness ==
    /\ ReturnedFor(2, UniformTwoWires)
    /\ Len(ops) = 6
    /\ Len(OpsOfStep("Z", 1)) = 2

-----------------------------------------------------------------------------
(* Claims about lengths and counts *)

\* C13 as claimed: in the Y-cascade the vector computed by _get_alpha_y(a, N, k)
\* has length 2^(k-1).
C13_AlphaYLengthByK ==
    (StepTaken /\ pc = "y_cascade") => Len(alpha) = Pow2((k + 1) - 1)

\* C13 amended: in the Y-cascade the vector computed by _get_alpha_y(a, N, k)
\* for 1 <= k <= N has length 2^(N-k).
C13_AlphaYLengthByGroups ==
    (StepTaken /\ pc = "y_cascade") =>
        /\ k + 1 \in 1..Len(wires)
        /\ Len(alpha) = Pow2(Len(wires) - (k + 1))

C13_Witness ==
    /\ StepTaken
    /\ pc = "y_cascade"
    /\ Len(wires) = 3
    /\ k + 1 = 1
    /\ Len(alpha) = 4

\* number of queued operations of the given cascade whose kind is in kinds
CountOps(cascade, kinds) ==
    Cardinality({i \in 1..Len(ops) : steps[i][1] = cascade /\ ops[i].kind \in kinds})

\* C14: for N >= 1 and a valid input, each cascade queues at most 2^N - 1
\* rotations (2^(N+1) - 2 in all), and the number of CNOTs is exactly
\* 2^(N+1) - 4 (2^N - 2 per cascade), none of them queued by step k = N.
C14_OperationCounts ==
    (pc = "done" /\ Len(wires) >= 1) =>
        LET N == Len(wires)
        IN  /\ CountOps("Y", {"RY", "RZ"}) <= Pow2(N) - 1
            /\ CountOps("Z", {"RY", "RZ"}) <= Pow2(N) - 1
            /\ CountOps("Y", {"RY", "RZ"}) + CountOps("Z", {"RY", "RZ"}) <= Pow2(N + 1) - 2
            /\ CountOps("Y", {"CNOT"}) = Pow2(N) - 2
            /\ CountOps("Z", {"CNOT"}) = Pow2(N) - 2
            /\ CountOps("Y", {"CNOT"}) + CountOps("Z", {"CNOT"}) = Pow2(N + 1) - 4
            /\ \A i \in 1..Len(ops) : ops[i].kind = "CNOT" => steps[i][2] # N

C14_Witness ==
    /\ pc = "done"
    /\ Len(wires) = 3
    /\ CountOps("Y", {"CNOT"}) + CountOps("Z", {"CNOT"}) = 12
    /\ CountOps("Y", {"RY"}) >= 3
    /\ CountOps("Z", {"RZ"}) >= 3

\* C15: at every step of either cascade the alpha vector has exactly
\* 2^(number of control wires) >= 1 entries and theta has as many, so theta[i]
\* exists for every Gray-code position read and the check of the Z-cascade
\* for an empty vector never skips a step.
C15_AlphaLengthMatchesControls ==
    StepTaken =>
        /\ Len(alpha) = Pow2(Len(control))
        /\ Len(alpha) >= 1
        /\ Len(theta) = Len(alpha)
        /\ Len(control) >= 1 => Len(theta) = Len(gray_code(Len(control)))

C15_Witness ==
    /\ StepTaken
    /\ pc = "z_cascade"
    /\ Len(control) = 2
    /\ Len(alpha) = 4
    /\ Len(last) > 4

====
